---------------------------- MODULE Spec2Model ----------------------------
(***************************************************************************)
(* MindfulMachines: the podcast pipeline of src/main.py and the stage      *)
(* functions it calls (arxiv_scrapper.py, paper_ranker.py,                 *)
(* llm_podcaster.py, script_to_audio.py).                                  *)
(*                                                                         *)
(* Three programs of the repository are modelled as they run:              *)
(*   prog = "main"             python main.py             (main.main)      *)
(*   prog = "paper_ranker"     python paper_ranker.py     (its main)       *)
(*   prog = "script_to_audio"  python script_to_audio.py  (its main)       *)
(* Specification Spec is these three programs from their first line.       *)
(* Specification SpecStages is main.py's later stages (lines 51-95), each  *)
(* entered with every value of its input.                                  *)
(*                                                                         *)
(* Time is an integer number of ticks, TicksPerDay ticks to a day; a       *)
(* datetime is a tick count and timedelta.days is floor division.          *)
(***************************************************************************)
EXTENDS Integers, Sequences, FiniteSets, TLC

\* ------------------------------------------------------------------ bounds
MaxPapers == 2
TicksPerDay == 2
MaxClock == 1
ShortAbstract == 10
LongAbstract == 60
MinAbstractLength == 50

\* ------------------------------------------------------- program constants
\* filter_papers_by_timeframe(papers, days=7)
FilterDays == 7
\* score += max(0, 30 - recency_score)
DecayDays == 30
\* select_top_paper(ranked_papers, top_n=1)
DefaultTopN == 1

\* ------------------------------------------------------------- the inputs
\* Ages (ticks before clock reading 0) of the published timestamps the feed
\* may carry: one tick in the future, now, just inside and exactly on the
\* 7-day window, 30 days, 45 days.
PublishedAges ==
    {-1, 0, FilterDays * TicksPerDay - 1, FilterDays * TicksPerDay,
     DecayDays * TicksPerDay, (DecayDays + 15) * TicksPerDay}

\* Ages of the updated timestamps: recent, and older than any window.
UpdatedAges == {1, DecayDays * TicksPerDay}

AbstractLengths == {ShortAbstract, LongAbstract}

\* One feed entry as fetch_recent_papers maps it: the dictionary's
\* published, updated, and the length of its summary (title and authors
\* take no part in any decision of the pipeline), and with its link in
\* Paper.
EntryFields ==
    [published : {0 - a : a \in PublishedAges},
     updated : {0 - a : a \in UpdatedAges},
     summaryLen : AbstractLengths]

Paper(i, e) ==
    [link |-> i, published |-> e.published, updated |-> e.updated,
     summaryLen |-> e.summaryLen]

\* A list of n papers with distinct links, numbered in list order or
\* against it, the i-th with the fields f[i].
Entries(n, f, rev) ==
    [i \in 1..n |-> Paper(IF rev THEN n + 1 - i ELSE i, f[i])]

\* --------------------------------------------------------- python values
None == [tag |-> "None", items |-> <<>>]
List(s) == [tag |-> "list", items |-> s]

Dict(p) == [tag |-> "dict", items |-> <<p>>]
Str(t) == [tag |-> "str", items |-> <<t>>]

\* bool(v) of None, a list or a string.
Truthy(v) ==
    \/ v.tag = "list" /\ Len(v.items) > 0
    \/ v.tag = "str" /\ v.items # <<"">>
    \/ v.tag = "dict"

Max(a, b) == IF a >= b THEN a ELSE b

\* ------------------------------------------------------- stage functions
\* arxiv_scrapper.fetch_recent_papers: every exception in the try block
\* (bozo feed, an entry without a required attribute) is printed and turned
\* into [].
fetch_recent_papers(feed) ==
    IF feed.bozo THEN <<>>
    ELSE IF feed.incomplete THEN <<>>
    ELSE feed.entries

\* Lines 72-73: the except clause prints "An error occurred: ..." before
\* it returns []; nothing else of the failure leaves the function.
fetch_prints_error(feed) == feed.bozo \/ feed.incomplete

\* The filter of a sequence, order kept.
RECURSIVE SelectKeep(_, _)
SelectKeep(s, cutoff) ==
    IF s = <<>> THEN <<>>
    ELSE IF Head(s).published > cutoff \/ Head(s).updated > cutoff
         THEN <<Head(s)>> \o SelectKeep(Tail(s), cutoff)
         ELSE SelectKeep(Tail(s), cutoff)

\* The same with the clock read again for every item, advancing a tick each
\* time (a cutoff that is not one cutoff).
RECURSIVE SelectKeepResampled(_, _)
SelectKeepResampled(s, cutoff) ==
    IF s = <<>> THEN <<>>
    ELSE IF Head(s).published > cutoff \/ Head(s).updated > cutoff
         THEN <<Head(s)>> \o SelectKeepResampled(Tail(s), cutoff + 1)
         ELSE SelectKeepResampled(Tail(s), cutoff + 1)

filter_resampled(papers, days, now) ==
    SelectKeepResampled(papers, now - days * TicksPerDay)

\* arxiv_scrapper.filter_papers_by_timeframe: now is the one reading of
\* datetime.now() the call makes.
filter_papers_by_timeframe(papers, days, now) ==
    SelectKeep(papers, now - days * TicksPerDay)

\* timedelta.days of the difference of two datetimes: whole days, rounded
\* down.
DaysBetween(now, then) == (now - then) \div TicksPerDay

\* The score without its floor at zero.
simple_score_unfloored(published, now) ==
    DecayDays - DaysBetween(now, published)

\* paper_ranker.rank_papers, the 'simple' score of one paper, now being the
\* reading of datetime.now() made for that paper.
simple_score(published, now) ==
    Max(0, DecayDays - DaysBetween(now, published))

Scored(p, s) ==
    [link |-> p.link, published |-> p.published, updated |-> p.updated,
     summaryLen |-> p.summaryLen, score |-> s]

\* The for loop of rank_papers: paper['score'] = score for every paper, the
\* i-th scored at reading nows[i].
score_papers(papers, nows) ==
    [i \in 1..Len(papers) |-> Scored(papers[i], simple_score(papers[i].published, nows[i]))]

\* One insertion of a stable descending sort: p goes after every element
\* whose score is at least its own.
RECURSIVE InsertDesc(_, _)
InsertDesc(s, p) ==
    IF s = <<>> THEN <<p>>
    ELSE IF Head(s).score >= p.score THEN <<Head(s)>> \o InsertDesc(Tail(s), p)
    ELSE <<p>> \o s

\* The elements of s inserted one by one, first to last, into acc.
RECURSIVE SortDescInto(_, _)
SortDescInto(s, acc) ==
    IF s = <<>> THEN acc
    ELSE SortDescInto(Tail(s), InsertDesc(acc, Head(s)))

\* The same sort in ascending order.
RECURSIVE InsertAsc(_, _)
InsertAsc(s, p) ==
    IF s = <<>> THEN <<p>>
    ELSE IF Head(s).score <= p.score THEN <<Head(s)>> \o InsertAsc(Tail(s), p)
    ELSE <<p>> \o s

RECURSIVE SortAscInto(_, _)
SortAscInto(s, acc) ==
    IF s = <<>> THEN acc
    ELSE SortAscInto(Tail(s), InsertAsc(acc, Head(s)))

\* sorted(...) without reverse=True.
sorted_by_score_ascending(scored) == SortAscInto(scored, <<>>)

\* sorted(scored_papers, key=lambda p: p['score'], reverse=True): Python's
\* sort is stable, also with reverse=True.
sorted_by_score(scored) == SortDescInto(scored, <<>>)

\* paper_ranker.rank_papers. datetimeBound: whether the name datetime is
\* bound in module paper_ranker, which it is only when the module runs as
\* __main__ (its import stands under `if __name__ == "__main__":`). The
\* result is the exception raised ("none": it returned) and the value.
rank_papers(papers, ranking_strategy, nows, datetimeBound) ==
    IF Len(papers) = 0 THEN [exc |-> "none", val |-> <<>>]
    ELSE IF ranking_strategy = "simple"
    THEN IF datetimeBound
         THEN [exc |-> "none", val |-> sorted_by_score(score_papers(papers, nows))]
         ELSE [exc |-> "NameError", val |-> <<>>]
    ELSE [exc |-> "none", val |-> papers]

Min(a, b) == IF a <= b THEN a ELSE b

\* paper_ranker.select_top_paper: ranked_papers[:top_n].
select_top_paper(ranked_papers, top_n) ==
    IF Len(ranked_papers) = 0 THEN <<>>
    ELSE SubSeq(ranked_papers, 1, Min(top_n, Len(ranked_papers)))

\* -------------------------------------------------------------- the state
VARIABLES
    prog,              \* the program that runs
    pc,                \* its position
    feed,              \* what feedparser.parse answers
    configOk,          \* whether settings.ini holds the sections and keys read
    llm,               \* how the language model call ends
    tts,               \* how the speech request ends
    experts,           \* settings.ini [podcast] expert_1, expert_2, expert_3
    clock,             \* the last reading of datetime.now()
    all_papers,        \* scrape_papers: all_papers; paper_ranker.main: papers
    recent_papers,     \* the filter's result
    papers,            \* main: papers
    ranked_papers,     \* main, paper_ranker.main: ranked_papers
    selected_paper,    \* main, paper_ranker.main: selected_paper
    podcast_script_content,  \* main: podcast_script_content
    script_files,      \* the files written under ./output/scripts
    audio_files,       \* the files written under output/audio
    rendered_script,   \* the script generate_podcast_audio was called with
    trace,             \* the stages invoked so far, in order
    filterNow,         \* the reading the filter made
    scoredAt,          \* the readings the ranker made, one per paper
    requests_posted,   \* the calls of requests.post made so far
    printed_error,     \* whether fetch_recent_papers printed "An error occurred"
    outcome            \* how the program ended

\* What the environment fixes for the whole run.
env == <<prog, feed, configOk, llm, tts, experts>>

vars ==
    <<prog, pc, feed, configOk, llm, tts, experts, clock, all_papers,
      recent_papers, papers, ranked_papers, selected_paper,
      podcast_script_content, script_files, audio_files, rendered_script,
      trace, filterNow, scoredAt, requests_posted, printed_error, outcome>>

\* How generate_podcast_script's model call ends: a text, an empty text, an
\* exception inside its try block, an exception of LlamaCPP(...) before it.
LlmOutcomes == {"text", "empty", "error", "load_error"}

\* How generate_podcast_audio's request ends: audio, a RequestException, a
\* response without the expected keys, any other exception.
TtsOutcomes == {"ok", "request_error", "bad_envelope", "other_error"}

\* A reading of datetime.now(): the clock never runs backwards.
ClockReadings == clock..MaxClock

\* The readings of n successive calls.
ReadingSeqs(n) ==
    {s \in [1..n -> clock..MaxClock] : \A i \in 1..n : \A j \in i..n : s[i] <= s[j]}

Locals ==
    /\ pc = "start"
    /\ clock = 0
    /\ all_papers = <<>>
    /\ recent_papers = <<>>
    /\ papers = None
    /\ ranked_papers = <<>>
    /\ selected_paper = None
    /\ podcast_script_content = None
    /\ rendered_script = None
    /\ script_files = 0
    /\ audio_files = 0
    /\ trace = <<>>
    /\ filterNow = 0
    /\ scoredAt = <<>>
    /\ requests_posted = 0
    /\ printed_error = FALSE
    /\ outcome = "running"

NoFeed == [bozo |-> FALSE, entries |-> <<>>, incomplete |-> FALSE]

\* The names settings.ini may give the three experts, and the names it gives
\* in the runs where they play no part.
SpeakerNames == {"ML Expert", "Neuroscientist", "Psychologist", "Host"}

DefaultExperts == <<"ML Expert", "Neuroscientist", "Psychologist">>

Init ==
    /\ prog \in {"main", "paper_ranker", "script_to_audio"}
    /\ IF prog = "script_to_audio"
       THEN feed = NoFeed
       ELSE \E n \in 0..MaxPapers, b \in BOOLEAN :
               \E f \in [1..n -> EntryFields], rev \in BOOLEAN,
                  m \in IF n = 0 THEN {FALSE} ELSE BOOLEAN :
                   feed = [bozo |-> b, entries |-> Entries(n, f, rev),
                           incomplete |-> m]
    /\ configOk \in BOOLEAN
    /\ IF prog = "script_to_audio"
       THEN llm = "text" /\ tts \in TtsOutcomes
       ELSE \E succeed \in IF prog = "main" THEN BOOLEAN ELSE {TRUE} :
               /\ llm = IF succeed THEN "text" ELSE "error"
               /\ tts = IF succeed THEN "ok" ELSE "request_error"
    /\ experts \in IF prog = "script_to_audio" /\ configOk
                   THEN [1..3 -> SpeakerNames] ELSE {DefaultExperts}
    /\ Locals

\* ---------------------------------------------------------------- main.py
\* main line 45 into scrape_papers lines 100-107: the configuration is read
\* and the feed fetched. A missing section or key raises out of
\* scrape_papers into main's except clause (lines 97-98).
ScrapeFetch ==
    /\ prog = "main" /\ pc = "start"
    /\ IF configOk
       THEN /\ all_papers' = fetch_recent_papers(feed)
            /\ printed_error' = fetch_prints_error(feed)
            /\ trace' = Append(trace, "Source")
            /\ pc' = "scrape_filter"
            /\ UNCHANGED outcome
       ELSE /\ outcome' = "Unhandled"
            /\ pc' = "done"
            /\ UNCHANGED <<all_papers, printed_error, trace>>
    /\ UNCHANGED <<env, requests_posted,
                   clock, recent_papers, papers, ranked_papers,
                   selected_paper, podcast_script_content, script_files,
                   audio_files, rendered_script, filterNow, scoredAt>>

\* What scrape_papers hands back to main: it has no return statement with a
\* value, neither at line 111 nor after the printing loop.
scrape_papers_result(recent) == None

\* scrape_papers lines 109-122 and main's assignment at line 45.
ScrapeFilter ==
    /\ prog = "main" /\ pc = "scrape_filter"
    /\ IF Len(all_papers) = 0
       THEN /\ papers' = None
            /\ UNCHANGED <<recent_papers, clock, filterNow, trace>>
       ELSE \E now \in ClockReadings :
            /\ clock' = now
            /\ filterNow' = now
            /\ recent_papers' = filter_papers_by_timeframe(all_papers, FilterDays, now)
            /\ trace' = Append(trace, "Filter")
            /\ papers' = scrape_papers_result(recent_papers')
    /\ pc' = "check_papers"
    /\ UNCHANGED <<env, requests_posted, printed_error,
                   all_papers, ranked_papers, selected_paper,
                   podcast_script_content, script_files, audio_files,
                   rendered_script, scoredAt, outcome>>

\* main without its test of papers.
main_after_scrape_unchecked(p) == [pc |-> "rank", outcome |-> "running"]

\* main lines 47-49.
main_after_scrape(p) ==
    IF ~Truthy(p) THEN [pc |-> "done", outcome |-> "NoNewPapers"]
    ELSE [pc |-> "rank", outcome |-> "running"]

MainCheckPapers ==
    /\ prog = "main" /\ pc = "check_papers"
    /\ pc' = main_after_scrape(papers).pc
    /\ outcome' = main_after_scrape(papers).outcome
    /\ UNCHANGED <<env, requests_posted, printed_error,
                   clock, all_papers, recent_papers, papers,
                   ranked_papers, selected_paper, podcast_script_content,
                   script_files, audio_files, rendered_script, trace,
                   filterNow, scoredAt>>

\* -------------------------------------------------------- paper_ranker.py
\* paper_ranker.main lines 103-107. Nothing catches a missing section or
\* key: the program ends with the traceback.
RankerFetch ==
    /\ prog = "paper_ranker" /\ pc = "start"
    /\ IF configOk
       THEN /\ all_papers' = fetch_recent_papers(feed)
            /\ printed_error' = fetch_prints_error(feed)
            /\ trace' = Append(trace, "Source")
            /\ pc' = "pr_filter"
            /\ UNCHANGED outcome
       ELSE /\ outcome' = "Crash"
            /\ pc' = "done"
            /\ UNCHANGED <<all_papers, printed_error, trace>>
    /\ UNCHANGED <<env, requests_posted,
                   clock, recent_papers, papers, ranked_papers,
                   selected_paper, podcast_script_content, script_files,
                   audio_files, rendered_script, filterNow, scoredAt>>

\* paper_ranker.main line 108.
RankerFilter ==
    /\ prog = "paper_ranker" /\ pc = "pr_filter"
    /\ \E now \in ClockReadings :
        /\ clock' = now
        /\ filterNow' = now
        /\ recent_papers' = filter_papers_by_timeframe(all_papers, FilterDays, now)
    /\ trace' = Append(trace, "Filter")
    /\ pc' = "pr_rank"
    /\ UNCHANGED <<env, requests_posted, printed_error,
                   all_papers, papers, ranked_papers, selected_paper,
                   podcast_script_content, script_files, audio_files,
                   rendered_script, scoredAt, outcome>>

\* paper_ranker.main line 110: rank_papers(recent_papers), the strategy its
\* default 'simple', in the module run as __main__.
RankerRank ==
    /\ prog = "paper_ranker" /\ pc = "pr_rank"
    /\ \E nows \in ReadingSeqs(Len(recent_papers)) :
        /\ ranked_papers' = rank_papers(recent_papers, "simple", nows, TRUE).val
        /\ scoredAt' = nows
        /\ clock' = IF Len(nows) = 0 THEN clock ELSE nows[Len(nows)]
    /\ trace' = Append(trace, "Ranker")
    /\ pc' = "pr_select"
    /\ UNCHANGED <<env, requests_posted, printed_error,
                   all_papers, recent_papers, papers, selected_paper,
                   podcast_script_content, script_files, audio_files,
                   rendered_script, filterNow, outcome>>

\* paper_ranker.main lines 112-117.
RankerSelect ==
    /\ prog = "paper_ranker" /\ pc = "pr_select"
    /\ IF Len(ranked_papers) > 0
       THEN /\ selected_paper' = List(select_top_paper(ranked_papers, DefaultTopN))
            /\ trace' = Append(trace, "Selector")
            /\ outcome' = "Selected"
       ELSE /\ outcome' = "NoSuitablePapers"
            /\ UNCHANGED <<selected_paper, trace>>
    /\ pc' = "done"
    /\ UNCHANGED <<env, requests_posted, printed_error,
                   clock, all_papers, recent_papers, papers,
                   ranked_papers, podcast_script_content, script_files,
                   audio_files, rendered_script, filterNow, scoredAt>>

\* ------------------------------------------- main.py, the later stages
\* Lines 51-95 of main stand behind the test of line 47, which
\* scrape_papers' missing return value never lets pass. Specification
\* SpecStages enters main at each later stage with every value of that
\* stage's input: at line 51 with a non-empty list of papers, at line 55
\* with any list of ranked papers, at line 68 with one paper dictionary.

\* llm_podcaster.generate_podcast_script. Line 41 subscripts paper with a
\* string, lines 55-64 read the configuration and load the model, both
\* before the try block; inside it every exception becomes "". The text
\* returned is str(response), as generated.
generate_podcast_script(paper, cfgOk, llmOutcome) ==
    IF paper.tag # "dict" THEN [exc |-> "TypeError", val |-> None]
    ELSE IF ~cfgOk THEN [exc |-> "NoSectionError", val |-> None]
    ELSE IF llmOutcome = "load_error" THEN [exc |-> "Exception", val |-> None]
    ELSE IF llmOutcome = "text" THEN [exc |-> "none", val |-> Str("generated_text")]
    ELSE [exc |-> "none", val |-> Str("")]

\* script_to_audio.generate_podcast_audio. Lines 64-74 read the
\* configuration before the try block; the payload of lines 82-99 is fixed
\* and does not read script; inside the try block every exception becomes
\* False, and the file is written only after a well-formed response.
generate_podcast_audio(script, cfgOk, ttsOutcome) ==
    IF ~cfgOk THEN [exc |-> "NoSectionError", val |-> FALSE, wrote |-> FALSE]
    ELSE IF ttsOutcome = "ok" THEN [exc |-> "none", val |-> TRUE, wrote |-> TRUE]
    ELSE [exc |-> "none", val |-> FALSE, wrote |-> FALSE]

\* Lines 70-74: the dictionary built from the three configured names, a later
\* key replacing an equal earlier one.
Voices == <<"Zephyr", "Puck", "Kore">>

speaker_voice_mapping(names) ==
    [r \in {names[i] : i \in 1..3} |->
        Voices[CHOOSE i \in 1..3 :
                  names[i] = r /\ \A j \in 1..3 : names[j] = r => j <= i]]

\* The speakers a script names: those of its "dialogue" entries when it is
\* a dict (script_to_audio lines 146-150); a str has no entries to read.
script_speakers(script) ==
    IF script.tag = "dict" /\ Len(script.items) > 0
       /\ "dialogue" \in DOMAIN script.items[1]
    THEN {script.items[1].dialogue[i].speaker :
             i \in 1..Len(script.items[1].dialogue)}
    ELSE {}

\* Lines 82-106: the number of requests.post calls one call of
\* generate_podcast_audio makes. The payload names only the configured
\* speakers and script is not read, so the request goes out whenever the
\* configuration could be read.
request_posted(script, cfgOk) == IF cfgOk THEN 1 ELSE 0

\* The strategy argument main passes at line 53: the configuration object.
MainStrategyArgument == "ConfigParser"

\* main lines 51-53.
MainRank ==
    /\ prog = "main" /\ pc = "rank"
    /\ LET r == rank_papers(papers.items, MainStrategyArgument, <<>>, FALSE) IN
       IF r.exc = "none"
       THEN /\ ranked_papers' = r.val
            /\ pc' = "select"
            /\ UNCHANGED outcome
       ELSE /\ outcome' = "Unhandled"
            /\ pc' = "done"
            /\ UNCHANGED ranked_papers
    /\ trace' = Append(trace, "Ranker")
    /\ UNCHANGED <<env, requests_posted, printed_error,
                   clock, all_papers, recent_papers, papers,
                   selected_paper, podcast_script_content, script_files,
                   audio_files, rendered_script, filterNow, scoredAt>>

\* main lines 55-57.
MainSelect ==
    /\ prog = "main" /\ pc = "select"
    /\ selected_paper' = List(select_top_paper(ranked_papers, DefaultTopN))
    /\ trace' = Append(trace, "Selector")
    /\ pc' = "check_selected"
    /\ UNCHANGED <<env, requests_posted, printed_error,
                   clock, all_papers, recent_papers, papers,
                   ranked_papers, podcast_script_content, script_files,
                   audio_files, rendered_script, filterNow, scoredAt, outcome>>

\* main lines 59-61 reporting the empty selection as line 48 reports the
\* empty source.
main_after_select_as_warning(sel) ==
    IF ~Truthy(sel) THEN [pc |-> "done", outcome |-> "NoNewPapers"]
    ELSE [pc |-> "synthesize", outcome |-> "running"]

\* main lines 59-61.
main_after_select(sel) ==
    IF ~Truthy(sel) THEN [pc |-> "done", outcome |-> "CouldNotSelect"]
    ELSE [pc |-> "synthesize", outcome |-> "running"]

MainCheckSelected ==
    /\ prog = "main" /\ pc = "check_selected"
    /\ pc' = main_after_select(selected_paper).pc
    /\ outcome' = main_after_select(selected_paper).outcome
    /\ UNCHANGED <<env, requests_posted, printed_error,
                   clock, all_papers, recent_papers, papers,
                   ranked_papers, selected_paper, podcast_script_content,
                   script_files, audio_files, rendered_script, trace,
                   filterNow, scoredAt>>

\* main lines 68-70.
MainSynthesize ==
    /\ prog = "main" /\ pc = "synthesize"
    /\ LET r == generate_podcast_script(selected_paper, configOk, llm) IN
       IF r.exc = "none"
       THEN /\ podcast_script_content' = r.val
            /\ pc' = "check_script"
            /\ UNCHANGED outcome
       ELSE /\ outcome' = "Unhandled"
            /\ pc' = "done"
            /\ UNCHANGED podcast_script_content
    /\ trace' = Append(trace, "Synthesizer")
    /\ UNCHANGED <<env, requests_posted, printed_error,
                   clock, all_papers, recent_papers, papers,
                   ranked_papers, selected_paper, script_files, audio_files,
                   rendered_script, filterNow, scoredAt>>

\* main lines 76-78.
main_after_synthesize(content) ==
    IF ~Truthy(content) THEN [pc |-> "done", outcome |-> "ScriptFailed"]
    ELSE [pc |-> "save_script", outcome |-> "running"]

MainCheckScript ==
    /\ prog = "main" /\ pc = "check_script"
    /\ pc' = main_after_synthesize(podcast_script_content).pc
    /\ outcome' = main_after_synthesize(podcast_script_content).outcome
    /\ UNCHANGED <<env, requests_posted, printed_error,
                   clock, all_papers, recent_papers, papers,
                   ranked_papers, selected_paper, podcast_script_content,
                   script_files, audio_files, rendered_script, trace,
                   filterNow, scoredAt>>

\* main going on to line 90 without lines 80-88.
MainSaveScriptSkipped ==
    /\ prog = "main" /\ pc = "save_script"
    /\ pc' = "render"
    /\ UNCHANGED <<env, requests_posted, printed_error,
                   clock, all_papers, recent_papers, papers,
                   ranked_papers, selected_paper, podcast_script_content,
                   script_files, audio_files, rendered_script, trace,
                   filterNow, scoredAt, outcome>>

\* main lines 80-88: the script is written to
\* ./output/scripts/script_<timestamp>.json.
MainSaveScript ==
    /\ prog = "main" /\ pc = "save_script"
    /\ script_files' = script_files + 1
    /\ trace' = Append(trace, "SaveScript")
    /\ pc' = "render"
    /\ UNCHANGED <<env, requests_posted, printed_error,
                   clock, all_papers, recent_papers, papers,
                   ranked_papers, selected_paper, podcast_script_content,
                   audio_files, rendered_script, filterNow, scoredAt, outcome>>

\* main lines 90-95, and lines 97-98 for what generate_podcast_audio raises.
MainRender ==
    /\ prog = "main" /\ pc = "render"
    /\ LET r == generate_podcast_audio(podcast_script_content, configOk, tts) IN
       /\ audio_files' = IF r.wrote THEN audio_files + 1 ELSE audio_files
       /\ outcome' = IF r.exc # "none" THEN "Unhandled"
                     ELSE IF r.val THEN "Complete" ELSE "AudioFailed"
    /\ requests_posted' = requests_posted
                          + request_posted(podcast_script_content, configOk)
    /\ rendered_script' = podcast_script_content
    /\ trace' = Append(trace, "Renderer")
    /\ pc' = "done"
    /\ UNCHANGED <<env, printed_error,
                   clock, all_papers, recent_papers, papers,
                   ranked_papers, selected_paper, podcast_script_content,
                   script_files, filterNow, scoredAt>>

\* The logging level main ends at.
LogLevel(o) ==
    CASE o = "Complete" -> "info"
      [] o = "NoNewPapers" -> "warning"
      [] o \in {"CouldNotSelect", "ScriptFailed", "AudioFailed"} -> "error"
      [] o = "Unhandled" -> "critical"
      [] OTHER -> "none"

\* ------------------------------------------------------ script_to_audio.py
\* script_to_audio.main lines 149-156: the script the program renders.
mock_script ==
    [tag |-> "dict",
     items |-> <<[title |-> "A new paper on memory networks",
                  dialogue |-> <<[speaker |-> "ML Expert"],
                                 [speaker |-> "Neuroscientist"],
                                 [speaker |-> "Psychologist"]>>]>>]

\* script_to_audio.main lines 146-161. Nothing catches what
\* generate_podcast_audio raises before its try block.
AudioMain ==
    /\ prog = "script_to_audio" /\ pc = "start"
    /\ LET r == generate_podcast_audio(mock_script, configOk, tts) IN
       /\ audio_files' = IF r.wrote THEN audio_files + 1 ELSE audio_files
       /\ outcome' = IF r.exc # "none" THEN "Crash"
                     ELSE IF r.val THEN "TtsCompleted" ELSE "TtsFailed"
    /\ requests_posted' = requests_posted + request_posted(mock_script, configOk)
    /\ rendered_script' = mock_script
    /\ trace' = Append(trace, "Renderer")
    /\ pc' = "done"
    /\ UNCHANGED <<env, printed_error, clock, all_papers, recent_papers,
                   papers, ranked_papers, selected_paper,
                   podcast_script_content, script_files, filterNow, scoredAt>>

Next ==
    \/ ScrapeFetch
    \/ ScrapeFilter
    \/ MainCheckPapers
    \/ RankerFetch
    \/ RankerFilter
    \/ RankerRank
    \/ RankerSelect
    \/ AudioMain

Spec == Init /\ [][Next]_vars

InitStages ==
    /\ prog = "main"
    /\ feed = NoFeed
    /\ experts = DefaultExperts
    /\ clock = 0
    /\ all_papers = <<>>
    /\ recent_papers = <<>>
    /\ podcast_script_content = None
    /\ rendered_script = None
    /\ script_files = 0
    /\ audio_files = 0
    /\ filterNow = 0
    /\ scoredAt = <<>>
    /\ requests_posted = 0
    /\ printed_error = FALSE
    /\ outcome = "running"
    /\ \/ /\ pc = "rank"
          /\ \E n \in 1..MaxPapers :
                \E f \in [1..n -> EntryFields], rev \in BOOLEAN :
                    papers = List(Entries(n, f, rev))
          /\ ranked_papers = <<>>
          /\ selected_paper = None
          /\ trace = <<"Source", "Filter">>
          /\ configOk = TRUE /\ llm = "text" /\ tts = "ok"
       \/ /\ pc = "select"
          /\ papers = None
          /\ \E n \in 0..MaxPapers :
                \E f \in [1..n -> EntryFields], rev \in BOOLEAN :
                    ranked_papers = Entries(n, f, rev)
          /\ selected_paper = None
          /\ trace = <<"Source", "Filter", "Ranker">>
          /\ configOk = TRUE /\ llm = "text" /\ tts = "ok"
       \/ /\ pc = "synthesize"
          /\ papers = None
          /\ ranked_papers = <<>>
          /\ \E e \in EntryFields : selected_paper = Dict(Paper(1, e))
          /\ trace = <<"Source", "Filter", "Ranker", "Selector">>
          /\ configOk \in BOOLEAN
          /\ llm \in LlmOutcomes
          /\ tts \in TtsOutcomes

NextStages ==
    \/ MainRank
    \/ MainSelect
    \/ MainCheckSelected
    \/ MainSynthesize
    \/ MainCheckScript
    \/ MainSaveScript
    \/ MainRender

SpecStages == InitStages /\ [][NextStages]_vars

\* ------------------------------------------------------------ the claims
Range(s) == {s[i] : i \in 1..Len(s)}

\* The first index of e in s, 0 when it is not there.
IndexOf(s, e) ==
    IF e \in Range(s) THEN CHOOSE i \in 1..Len(s) : s[i] = e /\ \A j \in 1..(i - 1) : s[j] # e
    ELSE 0

\* The position in s of the paper with this link, 0 when it is not there.
PosOfLink(s, l) ==
    IF \E i \in 1..Len(s) : s[i].link = l THEN CHOOSE i \in 1..Len(s) : s[i].link = l
    ELSE 0

InWindow(p, now) ==
    \/ p.published > now - FilterDays * TicksPerDay
    \/ p.updated > now - FilterDays * TicksPerDay

\* C1's scenario: the feed answers with at least one entry inside the
\* recency window whose abstract is long enough, and the model and speech
\* calls succeed.
C1_Scenario ==
    /\ prog = "main" /\ configOk
    /\ ~feed.bozo /\ ~feed.incomplete
    /\ \E i \in 1..Len(feed.entries) :
          /\ \A now \in 0..MaxClock : InWindow(feed.entries[i], now)
          /\ feed.entries[i].summaryLen >= MinAbstractLength
    /\ llm = "text" /\ tts = "ok"

\* C1: a run of main in which the source returns an entry inside the
\* recency window with a long enough abstract, and the synthesizer and the
\* renderer succeed, ends Complete with exactly one script and exactly one
\* audio file persisted.
C1_EndToEndSuccess ==
    (C1_Scenario /\ pc = "done") =>
        /\ outcome = "Complete"
        /\ script_files = 1
        /\ audio_files = 1

\* C2: in a run of main in which the source returned no entry, the
\* synthesizer and the renderer are never invoked, nothing is persisted, and
\* the run ends in the empty-result termination (the warning of line 48).
C2_EmptySourceTerminates ==
    (prog = "main" /\ "Source" \in Range(trace) /\ Len(all_papers) = 0) =>
        /\ "Synthesizer" \notin Range(trace)
        /\ "Renderer" \notin Range(trace)
        /\ script_files = 0
        /\ audio_files = 0
        /\ pc \in {"scrape_filter", "check_papers", "done"}
        /\ pc = "done" => outcome = "NoNewPapers" /\ LogLevel(outcome) = "warning"

C2_Witness ==
    /\ prog = "main" /\ pc = "done"
    /\ "Source" \in Range(trace) /\ Len(all_papers) = 0
    /\ outcome = "NoNewPapers"

\* C3: whenever the renderer has been invoked, the script was written to
\* storage before that invocation, and it is still there afterwards,
\* whatever the renderer's result.
C3_ScriptPersistedBeforeRender ==
    "Renderer" \in Range(trace) =>
        /\ "SaveScript" \in Range(trace)
        /\ IndexOf(trace, "SaveScript") < IndexOf(trace, "Renderer")
        /\ script_files >= 1

C3_Witness ==
    /\ pc = "done" /\ "Renderer" \in Range(trace)
    /\ outcome = "AudioFailed"
    /\ script_files = 1 /\ audio_files = 0

\* The runs of SpecStages in which main's line 57 called the selector and
\* it returned the empty list.
SelectionEmpty ==
    /\ IndexOf(trace, "Selector") > 0
    /\ pc \in {"check_selected", "done"}
    /\ selected_paper = List(<<>>)

RECURSIVE IsSubsequence(_, _)
IsSubsequence(a, b) ==
    IF a = <<>> THEN TRUE
    ELSE IF b = <<>> THEN FALSE
    ELSE IF Head(a) = Head(b) THEN IsSubsequence(Tail(a), Tail(b))
    ELSE IsSubsequence(a, Tail(b))

\* C5: once the filter has run, its result is a subsequence of its input in
\* the input's order, and holds a candidate exactly when its published or
\* its updated timestamp is later than the one cutoff, the call's single
\* clock reading minus the window; an empty input gives an empty result.
C5_FilterCorrect ==
    "Filter" \in Range(trace) =>
        /\ IsSubsequence(recent_papers, all_papers)
        /\ \A i \in 1..Len(all_papers) :
              (all_papers[i] \in Range(recent_papers)) <=> InWindow(all_papers[i], filterNow)
        /\ Len(all_papers) = 0 => Len(recent_papers) = 0

C5_Witness ==
    /\ "Filter" \in Range(trace)
    /\ Len(all_papers) = 2 /\ Len(recent_papers) = 1
    /\ recent_papers[1] = all_papers[2]

\* The states in which paper_ranker.main has ranked its papers.
Ranked == prog = "paper_ranker" /\ pc \in {"pr_select", "done"} /\ "Ranker" \in Range(trace)

SameLinks(a, b) ==
    /\ Len(a) = Len(b)
    /\ {a[i].link : i \in 1..Len(a)} = {b[i].link : i \in 1..Len(b)}
    /\ \A i \in 1..Len(a) :
          LET q == b[PosOfLink(b, a[i].link)] IN
          /\ q.published = a[i].published /\ q.updated = a[i].updated
          /\ q.summaryLen = a[i].summaryLen

NonIncreasing(r) == \A i \in 1..Len(r) : \A j \in (i + 1)..Len(r) : r[i].score >= r[j].score

AgeWhenScored(p) ==
    DaysBetween(scoredAt[PosOfLink(recent_papers, p.link)], p.published)

RECURSIVE FirstQualifying(_, _, _)
FirstQualifying(ranked, topN, minLen) ==
    IF ranked = <<>> \/ topN = 0 THEN <<>>
    ELSE IF Head(ranked).summaryLen >= minLen
         THEN <<Head(ranked)>> \o FirstQualifying(Tail(ranked), topN - 1, minLen)
         ELSE FirstQualifying(Tail(ranked), topN, minLen)

\* C8: what the selector returns is the first topN candidates of the ranked
\* list whose abstract has at least minAbstractLength characters, shorter
\* ones being skipped; nothing when none qualifies.
C8_SelectorSkipsShortAbstracts ==
    (prog = "paper_ranker" /\ pc = "done" /\ "Selector" \in Range(trace)) =>
        selected_paper.items = FirstQualifying(ranked_papers, DefaultTopN, MinAbstractLength)

KnownStrategies == {"simple"}

\* The runs of SpecStages in which main's line 53 called the ranker.
RankedByMain == prog = "main" /\ papers # None /\ "Ranker" \in Range(trace)

\* C9: when the ranker is called with a strategy that is not a known one,
\* the run ends there with an error outcome, and the selector is not
\* invoked with what the ranker returned.
C9_UnknownStrategyIsError ==
    (RankedByMain /\ MainStrategyArgument \notin KnownStrategies) =>
        /\ pc = "done"
        /\ LogLevel(outcome) \in {"error", "critical"}
        /\ "Selector" \notin Range(trace)

\* A script as the renderer's contract has it: turns whose ordinals run
\* from 0 without a gap, spoken by at least two roles.
IsValidScript(v) ==
    /\ v.tag = "turns"
    /\ \A i \in 1..Len(v.items) : v.items[i].ordinal = i - 1
    /\ Cardinality({v.items[i].speaker : i \in 1..Len(v.items)}) >= 2

\* C10: the renderer is only invoked with a script parsed into turns and
\* meeting the script invariants; and when the synthesizer's call fails or
\* returns nothing usable the run ends as a failed generation without the
\* renderer being invoked.
C10_ScriptValidatedBeforeRender ==
    /\ "Renderer" \in Range(trace) => IsValidScript(rendered_script)
    /\ ("Synthesizer" \in Range(trace) /\ configOk /\ llm \in {"error", "empty"} /\ pc = "done") =>
          /\ outcome = "ScriptFailed"
          /\ "Renderer" \notin Range(trace)

\* The speakers the configuration maps to a voice: none when it cannot be read.
MappedSpeakers ==
    IF configOk THEN DOMAIN speaker_voice_mapping(experts) ELSE {}

\* generate_podcast_audio has been called with a script that names a speaker
\* the configuration maps to no voice.
RenderedUnmappedSpeaker ==
    /\ "Renderer" \in Range(trace)
    /\ script_speakers(rendered_script) \ MappedSpeakers # {}

\* C11: when the script passed to generate_podcast_audio names a speaker that
\* has no entry in the voice mapping, the call ends in an error raised for the
\* configuration and no speech request has been posted.
C11_UnmappedRoleFailsFast ==
    RenderedUnmappedSpeaker =>
        /\ requests_posted = 0
        /\ outcome \in {"Crash", "Unhandled"}

\* The feed could not be parsed, or one of its entries lacks a required
\* attribute.
FeedFailed == feed.bozo \/ feed.incomplete

\* fetch_recent_papers has been called on a failed feed.
FetchedFailedFeed ==
    /\ prog \in {"main", "paper_ranker"}
    /\ "Source" \in Range(trace)
    /\ FeedFailed

\* After a failed feed the caller holds an empty list and nothing was raised.
FailedFeedYieldsEmptyList ==
    FetchedFailedFeed =>
        /\ all_papers = <<>>
        /\ outcome \notin {"Crash", "Unhandled"}

\* How each program ends when a working feed has no entries.
EmptyFeedOutcomes == {"NoNewPapers", "NoSuitablePapers"}

\* C12: when the feed is unreachable, unparsable, or an entry lacks a required
\* field, fetch_recent_papers raises nothing, returns an empty list, and tells
\* its caller of the failure, so that the program does not end as it ends for
\* a working feed without entries.
C12_SourceSignalsUnavailable ==
    /\ FailedFeedYieldsEmptyList
    /\ (FetchedFailedFeed /\ pc = "done") => outcome \notin EmptyFeedOutcomes

\* The stages of the pipeline in main's order (main lines 43-95).
Stages ==
    <<"Source", "Filter", "Ranker", "Selector", "Synthesizer", "Renderer">>

IsStage(e) == e \in Range(Stages)

\* The stage invocations of the run so far, the saving of the script left out.
StageTrace == SelectSeq(trace, IsStage)

IsPrefix(a, b) ==
    /\ Len(a) <= Len(b)
    /\ \A i \in 1..Len(a) : a[i] = b[i]

\* The stage failed or yielded nothing.
StageCameUpEmpty(st) ==
    CASE st = "Source" -> Len(all_papers) = 0
      [] st = "Filter" -> Len(recent_papers) = 0
      [] st = "Ranker" -> Len(ranked_papers) = 0
                          \/ MainStrategyArgument \notin KnownStrategies
      [] st = "Selector" -> ~Truthy(selected_paper)
      [] st = "Synthesizer" -> ~Truthy(podcast_script_content)
      [] OTHER -> audio_files = 0

\* The stages of main run in order, each at most once, and none after a
\* stage that failed or yielded nothing.
ForwardOnly ==
    prog = "main" =>
        /\ IsPrefix(StageTrace, Stages)
        /\ \A i \in 1..(Len(StageTrace) - 1) : ~StageCameUpEmpty(StageTrace[i])

\* C13: in every run of main the stage invocations are a prefix of Source,
\* Filter, Ranker, Selector, Synthesizer, Renderer, each stage at most once,
\* no stage runs after one that failed or yielded nothing, and a run that
\* ended before the Renderer ended at such a stage.
C13_SingleForwardPass ==
    /\ ForwardOnly
    /\ (prog = "main" /\ pc = "done" /\ Len(StageTrace) \in 1..(Len(Stages) - 1))
           => StageCameUpEmpty(StageTrace[Len(StageTrace)])

=============================================================================
